---- MODULE Spec2Model ----
(***************************************************************************)
(* A model of the divan benchmarking core:                                 *)
(*   - bench.rs : Context (bench_loop, start_sample, end_sample,           *)
(*                compute_totals, compute_stats)                           *)
(*   - entry.rs : EntryTree (from_entries, insert, from_path, get_children)*)
(*   - time.rs  : FineDuration (From<Duration>)                            *)
(* Sample and Stats live in stats.rs, which is not part of the sources at  *)
(* hand; Sample's two derived durations are taken from the specification.  *)
(***************************************************************************)
EXTENDS Integers, Sequences, FiniteSets, TLC

VARIABLES
    \* ---- Context (bench.rs:67-79)
    is_test,        \* Context.is_test
    options,        \* Context.options : BenchOptions
    samples,        \* Context.samples : Vec<Sample>
    \* ---- the value last returned by compute_stats (NoStats before any call)
    stats,
    \* ---- one call of bench_loop<R>(f) (bench.rs:88-152)
    pc,             \* where the call stands; "idle" between calls
    needs_drop,     \* std::mem::needs_drop::<R>()
    drop_store,     \* the local Vec<R>
    sample_count,   \* the local, resolved sample count
    sample_size,    \* the local, resolved batch size
    batch,          \* batches completed by `for _ in 0..sample_count`
    iter,           \* calls made by the sample loop of the current batch
    start,          \* the local `start` of the current batch
    end_,           \* the local `end` of end_sample
    clock,          \* the monotonic clock, in nanoseconds
    \* ---- what has happened so far
    fcalls,         \* calls of f, over all calls of bench_loop
    runs,           \* calls of bench_loop that have returned
    timing,         \* between a start reading and the next end reading
    drops,          \* what the destructor of R has been run on
    events,         \* the events of the current batch, in order
    \* ---- EntryTree::from_entries (entry.rs:64-75)
    entries,        \* the entries the iterator yields, in order
    consumed,       \* how many of them the `for` loop has taken
    result,         \* the local `result`
    \* ---- FineDuration::from (time.rs:9-14)
    duration,       \* the std Duration handed in
    fine            \* the FineDuration returned (NoFine before the call)

ctxVars == <<is_test, options, samples>>
loopVars == <<pc, needs_drop, drop_store, sample_count, sample_size, batch,
              iter, start, end_, clock, fcalls, runs, timing, drops, events>>
treeVars == <<entries, consumed, result>>
timeVars == <<duration, fine>>
vars == <<is_test, options, samples, stats, pc, needs_drop, drop_store,
          sample_count, sample_size, batch, iter, start, end_, clock, fcalls,
          runs, timing, drops, events, entries, consumed, result, duration,
          fine>>

(***************************************************************************)
(* Bounds of the model.                                                    *)
(***************************************************************************)
MaxSamples == 4     \* longest sample list handed to compute_stats
MaxNs      == 2     \* longest batch duration, in nanoseconds

MaxOpt     == 2     \* largest configured sample count / batch size stepped through
MaxRuns    == 2     \* calls of bench_loop on one Context
MaxTick    == 1     \* largest advance of the clock between two readings
MaxClock   == 3     \* the clock stops advancing here
MaxEntries == 3     \* entries handed to from_entries

\* Option<u32>
None == [some |-> FALSE]
Some(v) == [some |-> TRUE, val |-> v]
unwrap_or(o, d) == IF o.some THEN o.val ELSE d

NoStats == [returned |-> FALSE]

(***************************************************************************)
(* time.rs                                                                 *)
(***************************************************************************)
\* The factor of `duration.as_nanos() * 1_000`.
PICOS_PER_NANO == 1000

\* From<Duration> for FineDuration on a duration given as a nanosecond count
\* small enough that no width matters.
fine_from_nanos(nanos) == nanos * PICOS_PER_NANO

\* Wide unsigned integers are sequences of bytes, the low byte first.
RECURSIVE bytes_of(_)
bytes_of(n) == IF n = 0 THEN <<>> ELSE <<n % 256>> \o bytes_of(n \div 256)

RECURSIVE wide_add(_, _, _)
wide_add(x, y, carry) ==
    IF x = <<>> /\ y = <<>> THEN bytes_of(carry)
    ELSE LET a == IF x = <<>> THEN 0 ELSE Head(x)
             b == IF y = <<>> THEN 0 ELSE Head(y)
             s == a + b + carry
         IN <<s % 256>> \o wide_add(IF x = <<>> THEN <<>> ELSE Tail(x),
                                    IF y = <<>> THEN <<>> ELSE Tail(y),
                                    s \div 256)

RECURSIVE wide_mul_byte(_, _, _)
wide_mul_byte(x, d, carry) ==
    IF x = <<>> THEN bytes_of(carry)
    ELSE LET p == (Head(x) * d) + carry
         IN <<p % 256>> \o wide_mul_byte(Tail(x), d, p \div 256)

RECURSIVE wide_mul(_, _)
wide_mul(x, y) ==
    IF y = <<>> THEN <<>>
    ELSE wide_add(wide_mul_byte(x, Head(y), 0), <<0>> \o wide_mul(x, Tail(y)), 0)

\* The low `width` bytes of x: what an unsigned integer of that width keeps.
wrapped(x, width) == [i \in 1..width |-> IF i <= Len(x) THEN x[i] ELSE 0]

\* Whether x has a bit beyond `width` bytes.
overflows(x, width) == \E i \in 1..Len(x) : i > width /\ x[i] # 0

\* The bytes of a u128 (FineDuration.picos).
U128_BYTES == 16

\* A slip: the product is taken in 64 bits.
fine_from_in_u64(d) ==
    LET exact == wide_mul(wide_add(wide_mul(d.secs, bytes_of(1000000000)),
                                   bytes_of(d.nanos), 0),
                          bytes_of(PICOS_PER_NANO))
    IN [ picos |-> wrapped(wrapped(exact, 8), U128_BYTES),
         overflow |-> overflows(exact, 8) ]

\* From<Duration> for FineDuration: `duration.as_nanos() * 1_000` in u128,
\* where as_nanos() is secs * 1_000_000_000 + subsec_nanos, itself a u128.
\* On overflow the product wraps or the call panics, as the build has it;
\* `overflow` says that one of the two happened.
fine_from(d) ==
    LET as_nanos == wide_add(wide_mul(d.secs, bytes_of(1000000000)),
                             bytes_of(d.nanos), 0)
        exact    == wide_mul(as_nanos, bytes_of(PICOS_PER_NANO))
    IN [ picos |-> wrapped(exact, U128_BYTES),
         overflow |-> overflows(as_nanos, U128_BYTES)
                      \/ overflows(exact, U128_BYTES) ]

NoFine == [returned |-> FALSE]

\* FineDuration::from(duration)
from_duration ==
    /\ fine = NoFine
    /\ fine' = fine_from(duration)
    /\ UNCHANGED <<duration, ctxVars, stats, loopVars, treeVars>>

\* No conversion is asked for.
NoConversion ==
    /\ duration = [secs |-> <<>>, nanos |-> 0]
    /\ fine = NoFine

FineDurationDefault == 0

(***************************************************************************)
(* stats.rs (taken from the specification)                                 *)
(***************************************************************************)
\* Sample::avg_duration: total_duration / size.
avg_duration(s) == s.total_duration \div s.size

\* Sample::avg_duration_between: the average of the two samples' averages.
avg_duration_between(s1, s2) == (avg_duration(s1) + avg_duration(s2)) \div 2

(***************************************************************************)
(* bench.rs: the statistics reducer                                        *)
(***************************************************************************)
RECURSIVE compute_totals_fold(_, _, _)
compute_totals_fold(ss, count, total) ==
    IF ss = <<>> THEN <<count, total>>
    ELSE compute_totals_fold(Tail(ss), count + Head(ss).size,
                             total + Head(ss).total_duration)

\* A slip: the samples are counted, not their sizes.
compute_totals_by_sample(ss) == <<Len(ss), compute_totals_fold(ss, 0, 0)[2]>>

\* Context::compute_totals: (sum of sizes, sum of total durations).
compute_totals(ss) == compute_totals_fold(ss, 0, 0)

\* The permutations of 1..n, for every list length the model sorts.
AllPerms ==
    UNION { {p \in [1..n -> 1..n] : \A i, j \in 1..n : i # j => p[i] # p[j]}
            : n \in 0..MaxSamples }

PermsOf(n) == {p \in AllPerms : Len(p) = n}

\* A mis-sort: the view keeps the recorded order.
unsorted_views(ss) == {[i \in 1..Len(ss) |-> ss[i]]}

\* A slip: the key of the sort is the size.
views_by_size(ss) ==
    {[i \in 1..Len(ss) |-> ss[p[i]]] : p \in
        {q \in PermsOf(Len(ss)) :
            \A i \in 1..(Len(ss) - 1) : ss[q[i]].size <= ss[q[i + 1]].size}}

\* `ordered_samples.sort_unstable_by_key(|s| s.avg_duration())`: every
\* arrangement of the samples in ascending order of avg_duration. The sort
\* is unstable, so samples of equal key may come out in any order.
ordered_views(ss) ==
    {[i \in 1..Len(ss) |-> ss[p[i]]] : p \in
        {q \in PermsOf(Len(ss)) :
            \A i \in 1..(Len(ss) - 1) :
                avg_duration(ss[q[i]]) <= avg_duration(ss[q[i + 1]])}}

\* `checked_div(..).unwrap_or_default()`
checked_div_or_default(a, b) == IF b = 0 THEN 0 ELSE a \div b

\* A slip in the index arithmetic: the upper middle element, also for even n.
median_upper(ordered) ==
    IF Len(ordered) = 0 THEN FineDurationDefault
    ELSE avg_duration(ordered[(Len(ordered) \div 2) + 1])

\* The median branch of compute_stats. Rust indexes from 0, TLA+ from 1.
median_of(ordered) ==
    LET n == Len(ordered) IN    \* the local sample_count of compute_stats
    IF n = 0 THEN FineDurationDefault
    ELSE IF n % 2 = 0
         THEN LET s1 == ordered[(n \div 2) + 1]
                  s2 == ordered[((n \div 2) - 1) + 1]
              IN avg_duration_between(s1, s2)
         ELSE avg_duration(ordered[(n \div 2) + 1])

\* Context::compute_stats, given the ordered view the sort produced.
stats_of(ss, ordered) ==
    LET totals == compute_totals(ss) IN
    [ sample_count    |-> Len(ss),
      total_count     |-> totals[1],
      total_duration  |-> totals[2],
      avg_duration    |-> checked_div_or_default(totals[2], totals[1]),
      min_duration    |-> IF ordered = <<>> THEN FineDurationDefault
                          ELSE avg_duration(ordered[1]),
      max_duration    |-> IF ordered = <<>> THEN FineDurationDefault
                          ELSE avg_duration(ordered[Len(ordered)]),
      median_duration |-> median_of(ordered) ]

\* Context::compute_stats(&self) -> Stats
compute_stats ==
    /\ Len(samples) <= MaxSamples
    /\ \E ordered \in ordered_views(samples) :
          stats' = stats_of(samples, ordered)
    /\ UNCHANGED ctxVars
    /\ UNCHANGED loopVars
    /\ UNCHANGED treeVars
    /\ UNCHANGED timeVars

(***************************************************************************)
(* bench.rs: bench_loop, between calls                                     *)
(***************************************************************************)
\* Vec::<R>::new(): no elements, no capacity. `slots` is the allocation;
\* each slot is uninitialised, holds a live result of the batch that wrote
\* it, or holds the stale bits of a result that was destroyed.
EmptyVec == [len |-> 0, slots |-> <<>>]
Uninit == [st |-> "uninit", batch |-> 0]

NoDrops == [destroyed |-> 0, in_timed |-> FALSE, not_live |-> FALSE,
            unrecorded |-> FALSE, leaked |-> 0]

\* No call of bench_loop is under way.
LoopIdle(nd) ==
    /\ pc = "idle"
    /\ needs_drop = nd
    /\ drop_store = EmptyVec
    /\ sample_count = 0
    /\ sample_size = 0
    /\ batch = 0
    /\ iter = 0
    /\ start = 0
    /\ end_ = 0
    /\ clock = 0
    /\ fcalls = 0
    /\ runs = 0
    /\ timing = FALSE
    /\ drops = NoDrops
    /\ events = <<>>

(***************************************************************************)
(* entry.rs: EntryTree                                                     *)
(***************************************************************************)
\* A string is a sequence of characters.
SEP == <<":", ":">>

\* The part of `s` from position i on.
suffix_from(s, i) == SubSeq(s, i, Len(s))

\* The start of the leftmost "::" in `s`, or 0.
find_sep(s) ==
    LET hits == {i \in 1..(Len(s) - 1) : SubSeq(s, i, i + 1) = SEP}
    IN IF hits = {} THEN 0 ELSE CHOOSE i \in hits : \A j \in hits : i <= j

\* str::split("::"), collected: the pieces between the matches of "::",
\* found from the left, none overlapping another.
RECURSIVE split(_)
split(s) ==
    LET at == find_sep(s) IN
    IF at = 0 THEN <<s>>
    ELSE <<SubSeq(s, 1, at - 1)>> \o split(suffix_from(s, at + 2))

\* Entry::module_components: the iterator, as what it has yet to yield.
module_components(entry) == split(entry.module_path)

Leaf(entry) == [kind |-> "Leaf", entry |-> entry.id]
Parent(name, children) == [kind |-> "Parent", name |-> name, children |-> children]

\* A slip: only the node added last is looked at.
get_children_last(tree, module) ==
    IF tree # <<>> /\ tree[Len(tree)].kind = "Parent" /\ tree[Len(tree)].name = module
    THEN Len(tree) ELSE 0

\* EntryTree::get_children: the first Parent of `tree` named `module`, as
\* its position in `tree`; 0 for None.
get_children(tree, module) ==
    LET hits == {i \in 1..Len(tree) :
                    tree[i].kind = "Parent" /\ tree[i].name = module}
    IN IF hits = {} THEN 0 ELSE CHOOSE i \in hits : \A j \in hits : i <= j

\* A slip: the rest of the path is dropped.
from_path_flat(entry, current_module, rem_modules) ==
    Parent(current_module, <<Leaf(entry)>>)

\* EntryTree::from_path: a chain of Parents, one for current_module and one
\* for each module the iterator still yields, ending in the Leaf.
RECURSIVE from_path(_, _, _)
from_path(entry, current_module, rem_modules) ==
    LET child == IF rem_modules # <<>>
                 THEN from_path(entry, Head(rem_modules), Tail(rem_modules))
                 ELSE Leaf(entry)
    IN Parent(current_module, <<child>>)

\* EntryTree::insert
RECURSIVE insert(_, _, _)
insert(tree, entry, rem_modules) ==
    IF rem_modules # <<>>
    THEN LET current_module == Head(rem_modules)
             rest == Tail(rem_modules)
             at == get_children(tree, current_module)
         IN IF at # 0
            THEN [tree EXCEPT ![at].children = insert(@, entry, rest)]
            ELSE Append(tree, from_path(entry, current_module, rest))
    ELSE Append(tree, Leaf(entry))

\* entry.rs:70-72: one turn of the loop of from_entries.
from_entries_step ==
    /\ consumed < Len(entries)
    /\ LET entry == entries[consumed + 1]
       IN result' = insert(result, entry, module_components(entry))
    /\ consumed' = consumed + 1
    /\ UNCHANGED <<entries, ctxVars, stats, loopVars, timeVars>>

\* No tree is being built.
NoTree ==
    /\ entries = <<>>
    /\ consumed = 0
    /\ result = <<>>

\* The module paths of the drawn entries: paths as module_path!() gives
\* them, and strings with an empty piece or a lone colon.
PathChoices ==
    { <<"a">>, <<"b">>,
      <<"a", ":", ":", "b">>, <<"a", ":", ":", "c">>, <<"b", ":", ":", "a">>,
      <<"a", ":", ":", "b", ":", ":", "c">>,
      <<>>, <<"a", ":", ":">>, <<":", ":", "a">>, <<"a", ":", "b">>,
      <<"a", ":", ":", ":", "b">> }

EntryLists ==
    UNION {[1..n -> PathChoices] : n \in 0..MaxEntries}

\* `entries` is any list of up to MaxEntries entries; an entry is known by
\* its place in the list.
TreeInit ==
    /\ \E paths \in EntryLists :
          entries = [i \in 1..Len(paths) |-> [id |-> i, module_path |-> paths[i]]]
    /\ consumed = 0
    /\ result = <<>>
    /\ is_test = FALSE
    /\ options = [sample_count |-> None, sample_size |-> None]
    /\ samples = <<>>
    /\ stats = NoStats
    /\ LoopIdle(FALSE)
    /\ NoConversion

TreeNext == from_entries_step

SpecTree == TreeInit /\ [][TreeNext]_vars

(***************************************************************************)
(* Properties of EntryTree                                                 *)
(***************************************************************************)
RECURSIVE NoTwinParents(_)
NoTwinParents(tree) ==
    /\ \A i, j \in 1..Len(tree) :
          (i # j /\ tree[i].kind = "Parent" /\ tree[j].kind = "Parent")
              => tree[i].name # tree[j].name
    /\ \A i \in 1..Len(tree) :
          tree[i].kind = "Parent" => NoTwinParents(tree[i].children)

\* C6: whatever entries have been inserted, no list of nodes, the root list
\* or the children of a Parent, holds two Parents of the same name.
C6_NoTwinParents == NoTwinParents(result)

\* Three entries went in, the second and the third each reaching a Parent
\* that was already there.
C6_Witness ==
    /\ consumed = 3
    /\ Len(result) = 1
    /\ result[1].kind = "Parent"
    /\ Len(result[1].children) = 2
    /\ result[1].children[1].kind = "Parent"
    /\ result[1].children[2].kind = "Parent"

\* The Leaves of `tree`, each with the names of the Parents above it.
RECURSIVE LeavesUnder(_, _)
LeavesUnder(tree, above) ==
    UNION { IF tree[i].kind = "Leaf"
            THEN {[entry |-> tree[i].entry, at |-> above, place |-> i]}
            ELSE LeavesUnder(tree[i].children, Append(above, tree[i].name))
          : i \in 1..Len(tree) }

RECURSIVE CountLeaves(_)
CountLeaves(tree) ==
    IF tree = <<>> THEN 0
    ELSE (IF Head(tree).kind = "Leaf" THEN 1 ELSE CountLeaves(Head(tree).children))
         + CountLeaves(Tail(tree))

\* The names joined by "::".
RECURSIVE Joined(_)
Joined(names) ==
    IF names = <<>> THEN <<>>
    ELSE IF Len(names) = 1 THEN names[1]
    ELSE names[1] \o SEP \o Joined(Tail(names))

HasSep(s) == \E i \in 1..(Len(s) - 1) : SubSeq(s, i, i + 1) = SEP

\* C7: when from_entries is through, there are as many Leaves as entries,
\* each entry is at exactly one Leaf, and the Parents above that Leaf are
\* named by the "::"-separated pieces of the entry's module path, in order.
C7_LeafPerEntry ==
    consumed = Len(entries) =>
        /\ CountLeaves(result) = Len(entries)
        /\ \A k \in 1..Len(entries) :
              \E leaf \in LeavesUnder(result, <<>>) :
                  /\ leaf.entry = k
                  /\ leaf.at # <<>>
                  /\ Joined(leaf.at) = entries[k].module_path
                  /\ \A i \in 1..Len(leaf.at) : ~HasSep(leaf.at[i])
                  /\ \A other \in LeavesUnder(result, <<>>) :
                        other.entry = k => other = leaf

\* The entries a::b::x, a::b::y and a::c::z have been inserted.
C7_Witness ==
    /\ consumed = 3
    /\ result =
          << Parent(<<"a">>,
                << Parent(<<"b">>, << [kind |-> "Leaf", entry |-> 1],
                                      [kind |-> "Leaf", entry |-> 2] >>),
                   Parent(<<"c">>, << [kind |-> "Leaf", entry |-> 3] >>) >>) >>

(***************************************************************************)
(* SpecTime: the conversion of drawn Durations                             *)
(***************************************************************************)
\* A Duration is a u64 of seconds, here eight bytes, and fewer than
\* 1_000_000_000 nanoseconds. Duration::MAX has every byte at 255 and
\* 999_999_999 nanoseconds.
ByteChoices == {0, 1, 255}
NanoChoices == {0, 1, 999999999}

TimeInit ==
    /\ duration \in [secs : [1..8 -> ByteChoices], nanos : NanoChoices]
    /\ fine = NoFine
    /\ is_test = FALSE
    /\ options = [sample_count |-> None, sample_size |-> None]
    /\ samples = <<>>
    /\ stats = NoStats
    /\ LoopIdle(FALSE)
    /\ NoTree

TimeNext == from_duration

SpecTime == TimeInit /\ [][TimeNext]_vars

\* x without its high zero bytes.
RECURSIVE Canonical(_)
Canonical(x) ==
    IF x = <<>> THEN <<>>
    ELSE IF x[Len(x)] = 0 THEN Canonical(SubSeq(x, 1, Len(x) - 1))
    ELSE x

\* The picoseconds of a Duration, exactly: seconds times 10^12 plus
\* nanoseconds times 1000.
ExactPicos(d) ==
    wide_add(wide_mul(wide_mul(d.secs, bytes_of(1000000)), bytes_of(1000000)),
             wide_mul(bytes_of(d.nanos), bytes_of(1000)), 0)

DurationMax == [secs |-> [i \in 1..8 |-> 255], nanos |-> 999999999]

\* C8: the FineDuration of any Duration, Duration::MAX included, has for
\* picos the nanosecond count times 1000, exactly: the product fits the 128
\* bits and nothing wraps.
C8_NoOverflow ==
    fine # NoFine =>
        /\ ~fine.overflow
        /\ Len(fine.picos) = 16
        /\ Canonical(fine.picos) = Canonical(ExactPicos(duration))

\* Duration::MAX has been converted.
C8_Witness ==
    /\ fine # NoFine
    /\ duration = DurationMax
    /\ Canonical(fine.picos) = Canonical(ExactPicos(DurationMax))
    /\ Len(Canonical(fine.picos)) > 8

(***************************************************************************)
(* bench.rs: bench_loop, step by step                                      *)
(***************************************************************************)
\* The default of `unwrap_or(1_000)`, for the count and for the size.
DEFAULT_SAMPLE_COUNT == 1000
DEFAULT_SAMPLE_SIZE == 1000

\* `if self.is_test { 1 } else { self.options.<field>.unwrap_or(1_000) }`
resolve(test, opt, default) == IF test THEN 1 ELSE unwrap_or(opt, default)

\* Instant::now(): the clock never goes back.
Readings == {t \in clock..(clock + MaxTick) : t <= MaxClock}

\* Running R's destructor on the first `n` slots of `store`, as Vec does for
\* its elements on clear() and when it goes out of scope. `recorded` is the
\* number of Samples this call has pushed.
destroy_elements(store, n, log, recorded) ==
    [ destroyed  |-> log.destroyed
                     + Cardinality({i \in 1..n : store.slots[i].st = "live"}),
      in_timed   |-> log.in_timed \/ (timing /\ n > 0),
      not_live   |-> log.not_live
                     \/ \E i \in 1..n : store.slots[i].st # "live",
      unrecorded |-> log.unrecorded
                     \/ \E i \in 1..n : /\ store.slots[i].st = "live"
                                        /\ store.slots[i].batch > recorded,
      leaked     |-> log.leaked ]

\* Vec::clear(): the elements are destroyed in place, the length becomes 0
\* and the allocation is kept.
vec_clear(store) ==
    [ len   |-> 0,
      slots |-> [i \in 1..Len(store.slots) |->
                    IF i <= store.len /\ store.slots[i].st = "live"
                    THEN [st |-> "dropped", batch |-> store.slots[i].batch]
                    ELSE store.slots[i]] ]

\* Vec::reserve_exact(additional): room for `additional` more elements. A
\* new allocation carries over the elements only.
vec_reserve_exact(store, additional) ==
    IF Len(store.slots) - store.len >= additional THEN store
    ELSE [ len   |-> store.len,
           slots |-> [i \in 1..(store.len + additional) |->
                         IF i <= store.len THEN store.slots[i] ELSE Uninit] ]

\* A slip: the last slot is left out of the length.
set_len_short(store, n) == [store EXCEPT !.len = n - 1]

\* Vec::set_len(n)
vec_set_len(store, n) == [store EXCEPT !.len = n]

\* A slip: only the count is tested.
is_empty_count_only(count, size) == count = 0

\* `if sample_count == 0 || sample_size == 0 { return; }`
is_empty_run(count, size) == count = 0 \/ size = 0

\* bench.rs:88-105: the call, up to the loop over the batches.
bench_loop_enter ==
    /\ pc = "idle"
    /\ runs < MaxRuns
    /\ LET count == resolve(is_test, options.sample_count, DEFAULT_SAMPLE_COUNT)
           size  == resolve(is_test, options.sample_size, DEFAULT_SAMPLE_SIZE)
       IN IF is_empty_run(count, size)
          THEN /\ pc' = "idle"
               /\ runs' = runs + 1
               /\ UNCHANGED <<sample_count, sample_size>>
          ELSE /\ pc' = "for"
               /\ sample_count' = count
               /\ sample_size' = size
               /\ UNCHANGED runs
    /\ drop_store' = EmptyVec
    /\ batch' = 0
    /\ events' = <<>>
    /\ UNCHANGED <<timeVars, treeVars, ctxVars, stats, needs_drop, iter, start, end_, clock,
                   fcalls, timing, drops>>

\* bench.rs:111-122: the head of a batch; with needs_drop, the results of
\* the batch before are destroyed and the slots made ready.
batch_begin ==
    /\ pc = "for"
    /\ batch < sample_count
    /\ IF needs_drop
       THEN /\ drops' = destroy_elements(drop_store, drop_store.len, drops, batch)
            /\ drop_store' = vec_reserve_exact(vec_clear(drop_store), sample_size)
       ELSE UNCHANGED <<drops, drop_store>>
    /\ pc' = "start_fence"
    /\ events' = <<>>
    /\ UNCHANGED <<timeVars, treeVars, ctxVars, stats, needs_drop, sample_count, sample_size,
                   batch, iter, start, end_, clock, fcalls, runs, timing>>

\* bench.rs:156-158: start_sample, the fence.
start_fence ==
    /\ pc = "start_fence"
    /\ pc' = "start_now"
    /\ events' = Append(events, "fence")
    /\ UNCHANGED <<timeVars, treeVars, ctxVars, stats, needs_drop, drop_store, sample_count,
                   sample_size, batch, iter, start, end_, clock, fcalls, runs,
                   timing, drops>>

\* bench.rs:160: start_sample, the clock reading.
start_now ==
    /\ pc = "start_now"
    /\ \E now \in Readings :
          /\ clock' = now
          /\ start' = now
    /\ timing' = TRUE
    /\ iter' = 0
    /\ pc' = "sample_loop"
    /\ events' = Append(events, "start")
    /\ UNCHANGED <<timeVars, treeVars, ctxVars, stats, needs_drop, drop_store, sample_count,
                   sample_size, batch, end_, fcalls, runs, drops>>

\* bench.rs:126-135 and 146-148: one call of f. With needs_drop the result
\* is moved into its slot, which destroys nothing; without, the result has
\* no destructor to run.
call_f ==
    /\ pc = "sample_loop"
    /\ iter < sample_size
    /\ fcalls' = fcalls + 1
    /\ iter' = iter + 1
    /\ IF needs_drop
       THEN /\ drop_store' =
                  [drop_store EXCEPT !.slots[drop_store.len + iter + 1] =
                      [st |-> "live", batch |-> batch + 1]]
            /\ drops' =
                  [drops EXCEPT !.leaked =
                      IF drop_store.slots[drop_store.len + iter + 1].st = "live"
                      THEN @ + 1 ELSE @]
       ELSE UNCHANGED <<drop_store, drops>>
    /\ events' = Append(events, "call")
    /\ UNCHANGED <<timeVars, treeVars, ctxVars, stats, pc, needs_drop, sample_count, sample_size,
                   batch, start, end_, clock, runs, timing>>

\* A slip: end_sample with its two statements exchanged, the fence placed
\* before the clock reading.
end_now_after_fence ==
    /\ pc = "sample_loop"
    /\ iter = sample_size
    /\ \E now \in Readings :
          /\ clock' = now
          /\ end_' = now
    /\ timing' = FALSE
    /\ pc' = "push"
    /\ events' = Append(Append(events, "fence"), "end")
    /\ UNCHANGED <<timeVars, treeVars, ctxVars, stats, needs_drop, drop_store, sample_count,
                   sample_size, batch, iter, start, fcalls, runs, drops>>

\* bench.rs:166: end_sample, the clock reading.
end_now ==
    /\ pc = "sample_loop"
    /\ iter = sample_size
    /\ \E now \in Readings :
          /\ clock' = now
          /\ end_' = now
    /\ timing' = FALSE
    /\ pc' = "end_fence"
    /\ events' = Append(events, "end")
    /\ UNCHANGED <<timeVars, treeVars, ctxVars, stats, needs_drop, drop_store, sample_count,
                   sample_size, batch, iter, start, fcalls, runs, drops>>

\* bench.rs:169: end_sample, the fence.
end_fence ==
    /\ pc = "end_fence"
    /\ pc' = "push"
    /\ events' = Append(events, "fence")
    /\ UNCHANGED <<timeVars, treeVars, ctxVars, stats, needs_drop, drop_store, sample_count,
                   sample_size, batch, iter, start, end_, clock, fcalls, runs,
                   timing, drops>>

\* Instant::duration_since: saturating, in nanoseconds.
duration_since(later, earlier) == IF later >= earlier THEN later - earlier ELSE 0

\* bench.rs:171-176: end_sample, the Sample. Without needs_drop this ends
\* the batch.
push_sample ==
    /\ pc = "push"
    /\ samples' = Append(samples,
          [ start |-> start, end |-> end_, size |-> sample_size,
            total_duration |-> fine_from_nanos(duration_since(end_, start)) ])
    /\ IF needs_drop
       THEN /\ pc' = "set_len"
            /\ UNCHANGED batch
       ELSE /\ pc' = "for"
            /\ batch' = batch + 1
    /\ events' = Append(events, "push")
    /\ UNCHANGED <<timeVars, treeVars, is_test, options, stats, needs_drop, drop_store,
                   sample_count, sample_size, iter, start, end_, clock, fcalls,
                   runs, timing, drops>>

\* bench.rs:142: the slots written by the batch become elements.
set_len ==
    /\ pc = "set_len"
    /\ drop_store' = vec_set_len(drop_store, sample_size)
    /\ batch' = batch + 1
    /\ pc' = "for"
    /\ UNCHANGED <<timeVars, treeVars, ctxVars, stats, needs_drop, sample_count, sample_size,
                   iter, start, end_, clock, fcalls, runs, timing, drops,
                   events>>

\* bench.rs:151-152: the loop is over and bench_loop returns; drop_store
\* goes out of scope, which destroys its elements.
bench_loop_return ==
    /\ pc = "for"
    /\ batch = sample_count
    /\ drops' = destroy_elements(drop_store, drop_store.len, drops, batch)
    /\ drop_store' = EmptyVec
    /\ runs' = runs + 1
    /\ pc' = "idle"
    /\ sample_count' = 0
    /\ sample_size' = 0
    /\ batch' = 0
    /\ iter' = 0
    /\ start' = 0
    /\ end_' = 0
    /\ events' = <<>>
    /\ UNCHANGED <<timeVars, treeVars, ctxVars, stats, needs_drop, clock, fcalls, timing>>

\* compute_stats is called between calls of bench_loop.
compute_stats_idle == pc = "idle" /\ compute_stats

\* The configurations whose runs the model steps through call by call.
Stepped(test, opts) ==
    resolve(test, opts.sample_count, DEFAULT_SAMPLE_COUNT)
        * resolve(test, opts.sample_size, DEFAULT_SAMPLE_SIZE) <= MaxOpt * MaxOpt

OptionChoices == {None} \cup {Some(v) : v \in 0..MaxOpt}

\* Context::new(is_test), configured.
Init ==
    /\ is_test \in BOOLEAN
    /\ options \in [sample_count : OptionChoices, sample_size : OptionChoices]
    /\ Stepped(is_test, options)
    /\ samples = <<>>
    /\ stats = NoStats
    /\ \E nd \in BOOLEAN : LoopIdle(nd)
    /\ NoTree
    /\ NoConversion

Next ==
    \/ bench_loop_enter
    \/ batch_begin
    \/ start_fence
    \/ start_now
    \/ call_f
    \/ end_now
    \/ end_fence
    \/ push_sample
    \/ set_len
    \/ bench_loop_return
    \/ compute_stats_idle

Spec == Init /\ [][Next]_vars

(***************************************************************************)
(* bench.rs: bench_loop, one call as one step                              *)
(***************************************************************************)
\* The next reading of the clock, `tick` nanoseconds on.
reading_after(now, tick) == IF now + tick <= MaxClock THEN now + tick ELSE now

\* A slip: the range of the sample loop starts at 1.
sample_loop_short(size, calls) == calls + Cardinality(1..(size - 1))

\* bench.rs:126-135 and 146-148: the sample loop, `for _ in 0..sample_size`
\* (or over the first sample_size slots): one call of f for each element of
\* the range.
sample_loop(size, calls) == calls + Cardinality(0..(size - 1))

\* bench.rs:127: what the sample loop leaves in the spare slots.
fill_slots(store, size, b) ==
    [store EXCEPT !.slots =
        [i \in 1..Len(store.slots) |->
            IF store.len < i /\ i <= store.len + size
            THEN [st |-> "live", batch |-> b]
            ELSE store.slots[i]]]

\* bench.rs:112-150: one batch. `st` holds the samples, the calls made, the
\* clock, drop_store and the destructor's log; `b` batches are done.
one_batch(st, size, b, tick) ==
    LET now1   == reading_after(st.clock, tick)
        now2   == reading_after(now1, tick)
        sample == [ start |-> now1, end |-> now2, size |-> size,
                    total_duration |-> fine_from_nanos(duration_since(now2, now1)) ]
        ready  == vec_reserve_exact(vec_clear(st.store), size)
    IN [ samples |-> Append(st.samples, sample),
         fcalls  |-> sample_loop(size, st.fcalls),
         clock   |-> now2,
         store   |-> IF needs_drop
                     THEN vec_set_len(fill_slots(ready, size, b + 1), size)
                     ELSE st.store,
         drops   |-> IF needs_drop
                     THEN destroy_elements(st.store, st.store.len, st.drops, b)
                     ELSE st.drops ]

\* bench.rs:111: `for _ in 0..sample_count`, the batches numbered from
\* `b` up to `last`, run as two halves in sequence.
RECURSIVE for_batches(_, _, _, _, _)
for_batches(st, b, last, size, tick) ==
    IF b = last THEN st
    ELSE IF b + 1 = last THEN one_batch(st, size, b, tick)
    ELSE LET mid   == b + ((last - b) \div 2)
             first == for_batches(st, b, mid, size, tick)
         IN \* The test is true; it has the first half evaluated before the
            \* second half starts.
            IF first.fcalls >= st.fcalls
            THEN for_batches(first, mid, last, size, tick)
            ELSE first

\* bench.rs:88-152: Context::bench_loop, from call to return.
bench_loop ==
    /\ pc = "idle"
    /\ runs < MaxRuns
    /\ LET count == resolve(is_test, options.sample_count, DEFAULT_SAMPLE_COUNT)
           size  == resolve(is_test, options.sample_size, DEFAULT_SAMPLE_SIZE)
       IN IF is_empty_run(count, size)
          THEN UNCHANGED <<samples, fcalls, clock, drops>>
          ELSE \E tick \in 0..MaxTick :
                  LET st0 == [ samples |-> samples, fcalls |-> fcalls,
                               clock |-> clock, store |-> EmptyVec,
                               drops |-> drops ]
                      st  == for_batches(st0, 0, count, size, tick)
                  IN /\ samples' = st.samples
                     /\ fcalls' = st.fcalls
                     /\ clock' = st.clock
                     /\ drops' = destroy_elements(st.store, st.store.len,
                                                  st.drops, count)
    /\ runs' = runs + 1
    /\ UNCHANGED <<timeVars, treeVars, is_test, options, stats, pc, needs_drop, drop_store,
                   sample_count, sample_size, batch, iter, start, end_,
                   timing, events>>

\* Context::new(is_test), with any configuration. The slots of drop_store
\* are followed for the configurations Spec steps through; under larger
\* ones R is a type without a destructor.
RunInit ==
    /\ is_test \in BOOLEAN
    /\ options \in [sample_count : OptionChoices, sample_size : OptionChoices]
    /\ samples = <<>>
    /\ stats = NoStats
    /\ \E nd \in BOOLEAN :
          /\ nd => Stepped(is_test, options)
          /\ LoopIdle(nd)
    /\ NoTree
    /\ NoConversion

RunNext ==
    \/ bench_loop
    \/ compute_stats_idle

SpecRun == RunInit /\ [][RunNext]_vars

(***************************************************************************)
(* Properties of bench_loop                                                *)
(***************************************************************************)
ZeroStats ==
    [ sample_count |-> 0, total_count |-> 0, total_duration |-> 0,
      avg_duration |-> 0, min_duration |-> 0, max_duration |-> 0,
      median_duration |-> 0 ]

ConfiguredZero ==
    /\ ~is_test
    /\ options.sample_count = Some(0) \/ options.sample_size = Some(0)

\* C1: on a Context not in test mode whose sample count or batch size
\* resolves to 0, bench_loop never calls f and records no Sample, and
\* compute_stats returns 0 samples, 0 iterations and zero durations.
C1_ZeroRun ==
    ConfiguredZero =>
        /\ fcalls = 0
        /\ samples = <<>>
        /\ pc = "idle"
        /\ stats # NoStats => stats = ZeroStats

\* bench_loop has returned twice on such a Context, the size being the 0,
\* and compute_stats has been called.
C1_Witness ==
    /\ ConfiguredZero
    /\ options.sample_count # Some(0)
    /\ runs = 2
    /\ stats = ZeroStats

\* C10: when R needs dropping, no result is destroyed between a start and
\* an end reading; the results of a batch are destroyed once each, after
\* the batch's Sample is recorded and before the next start reading, or as
\* bench_loop returns; and nothing but a result f wrote is destroyed.
C10_DeferredDrop ==
    needs_drop =>
        /\ ~drops.in_timed
        /\ ~drops.not_live
        /\ ~drops.unrecorded
        /\ drops.leaked = 0
        /\ \A i \in 1..drop_store.len :
              /\ i <= Len(drop_store.slots)
              /\ drop_store.slots[i].st = "live"
        /\ timing => drops.destroyed = fcalls - iter
        /\ pc \in {"idle", "start_fence", "start_now"} => drops.destroyed = fcalls

\* The second batch of a run is about to take its start reading and the
\* two results of the first batch have been destroyed.
C10_Witness ==
    /\ needs_drop
    /\ pc = "start_now"
    /\ batch = 1
    /\ sample_size = 2
    /\ drops.destroyed = fcalls
    /\ fcalls >= 2

\* The events of one whole batch of `size` calls, in the claimed order.
BatchOrder(size) ==
    <<"fence", "start">> \o [i \in 1..size |-> "call"] \o <<"end", "fence", "push">>

IsPrefix(s, t) ==
    /\ Len(s) <= Len(t)
    /\ \A i \in 1..Len(s) : s[i] = t[i]

Logged(e) == \E i \in 1..Len(events) : events[i] = e

CallsLogged == Cardinality({i \in 1..Len(events) : events[i] = "call"})

\* What holds of the batch under way and of the Samples recorded so far.
BatchInOrder ==
    /\ IsPrefix(events, BatchOrder(sample_size))
    /\ timing <=> (Logged("start") /\ ~Logged("end"))
    /\ Logged("end") => CallsLogged = sample_size
    /\ fcalls = compute_totals(samples)[1]
                    + (IF Logged("push") THEN 0 ELSE CallsLogged)
    /\ pc = "for" => events = <<>> \/ events = BatchOrder(sample_size)
    /\ pc # "idle" =>
          Len(samples) = runs * sample_count + batch
                             + (IF pc = "set_len" THEN 1 ELSE 0)
    /\ Logged("push") =>
          /\ start <= end_
          /\ samples[Len(samples)] =
                [ start |-> start, end |-> end_, size |-> sample_size,
                  total_duration |-> (end_ - start) * PICOS_PER_NANO ]
    /\ \A i \in 1..Len(samples) :
          /\ samples[i].start <= samples[i].end
          /\ i < Len(samples) => samples[i].end <= samples[i + 1].start
    /\ (Logged("start") /\ ~Logged("push") /\ samples # <<>>) =>
          samples[Len(samples)].end <= start

\* C11: the events of every batch occur in the order fence, start reading,
\* sample_size calls of f, end reading, fence, and then one Sample is
\* appended holding that start, that end, the size sample_size and
\* end - start as its total duration; f is called only between a start
\* reading and the end reading that follows it, and a batch starts only
\* after the one before it has ended.
C11_BatchOrder ==
    /\ []BatchInOrder
    /\ [][fcalls' # fcalls => timing /\ timing']_vars

\* The second batch of a run is over, by two calls of f each, and its two
\* clock readings differ.
C11_Witness ==
    /\ pc = "for"
    /\ batch = 2
    /\ sample_size = 2
    /\ events = BatchOrder(2)
    /\ fcalls = 4
    /\ samples[Len(samples)].total_duration = (end_ - start) * PICOS_PER_NANO
    /\ end_ > start

\* The count and the size a run is to use, as the claim states them.
ClaimedCount ==
    IF is_test THEN 1
    ELSE IF options.sample_count.some THEN options.sample_count.val ELSE 1000

ClaimedSize ==
    IF is_test THEN 1
    ELSE IF options.sample_size.some THEN options.sample_size.val ELSE 1000

\* C2 as stated: when bench_loop has returned, f has been called
\* count * size times for each call of bench_loop and `count` Samples of
\* that size have been recorded for each, count and size being 1 in test
\* mode and otherwise the configured value, or 1000 where none is
\* configured.
C2_AsStated ==
    pc = "idle" =>
        /\ fcalls = runs * ClaimedCount * ClaimedSize
        /\ Len(samples) = runs * ClaimedCount
        /\ \A i \in 1..Len(samples) : samples[i].size = ClaimedSize

\* C2, amended: as stated, but a call with a size of 0 records no Sample,
\* whatever the count.
C2_FullRun ==
    pc = "idle" =>
        /\ fcalls = runs * ClaimedCount * ClaimedSize
        /\ Len(samples) = runs * (IF ClaimedSize = 0 THEN 0 ELSE ClaimedCount)
        /\ \A i \in 1..Len(samples) : samples[i].size = ClaimedSize

\* A run under the defaults has returned.
C2_Witness ==
    /\ ~is_test
    /\ options.sample_count = None
    /\ options.sample_size = None
    /\ runs = 1
    /\ Len(samples) = 1000
    /\ fcalls = 1000000

(***************************************************************************)
(* SpecStats: compute_stats over drawn sample lists.                       *)
(***************************************************************************)
\* The batch sizes of the drawn samples.
SizeChoices == {1, 3}

\* The sample lists a Context can hold: every batch has a positive size, the
\* clock readings are monotonic, and total_duration is end - start converted
\* to picoseconds.
RECURSIVE samples_from(_, _)
samples_from(draws, now) ==
    IF draws = <<>> THEN <<>>
    ELSE LET d == Head(draws) IN
         <<[ start |-> now, end |-> now + d[2], size |-> d[1],
             total_duration |-> fine_from_nanos(d[2]) ]>>
         \o samples_from(Tail(draws), now + d[2])

Draws == UNION {[1..n -> SizeChoices \X (0..MaxNs)] : n \in 0..MaxSamples}

\* A Context after some one-batch runs, each under the batch size configured
\* at the time; options hold the configuration of the last run.
StatsInit ==
    /\ is_test = FALSE
    /\ \E draws \in Draws :
          /\ samples = samples_from(draws, 0)
          /\ options = [ sample_count |-> 1,
                         sample_size  |-> IF draws = <<>> THEN 1
                                          ELSE draws[Len(draws)][1] ]
    /\ stats = NoStats
    /\ LoopIdle(FALSE)
    /\ NoTree
    /\ NoConversion

StatsNext == compute_stats

SpecStats == StatsInit /\ [][StatsNext]_vars

(***************************************************************************)
(* Properties of compute_stats                                             *)
(***************************************************************************)
\* A sample's average duration, as the claims state it.
SampleAvg(s) == s.total_duration \div s.size

AvgsOf(ss) == {SampleAvg(ss[i]) : i \in 1..Len(ss)}

\* The k-th smallest (k = 1..n) of the samples' averages, by rank.
KthAvg(ss, k) ==
    CHOOSE v \in AvgsOf(ss) :
        /\ Cardinality({i \in 1..Len(ss) : SampleAvg(ss[i]) < v}) < k
        /\ k <= Cardinality({i \in 1..Len(ss) : SampleAvg(ss[i]) <= v})

RecordedInOrder(ss) ==
    \A i \in 1..(Len(ss) - 1) : SampleAvg(ss[i]) <= SampleAvg(ss[i + 1])

\* C3: for n > 0 recorded samples, median_duration is the average at index
\* n/2 of the ascending averages when n is odd, and the mean of the averages
\* at indices n/2 - 1 and n/2 when n is even, whatever the recording order.
C3_Median ==
    (stats # NoStats /\ Len(samples) > 0) =>
        LET n == Len(samples) IN
        stats.median_duration =
            IF n % 2 = 1 THEN KthAvg(samples, (n \div 2) + 1)
            ELSE (KthAvg(samples, n \div 2) + KthAvg(samples, (n \div 2) + 1)) \div 2

\* An even number of samples recorded out of order, whose median lies
\* strictly between the two middle averages.
C3_Witness ==
    /\ stats # NoStats
    /\ Len(samples) = 4
    /\ ~RecordedInOrder(samples)
    /\ KthAvg(samples, 2) < stats.median_duration
    /\ stats.median_duration < KthAvg(samples, 3)

\* C4: for n > 0 recorded samples, min_duration <= median_duration <=
\* max_duration, and min_duration and max_duration are the smallest and the
\* largest per-sample average.
C4_MinMedianMax ==
    (stats # NoStats /\ Len(samples) > 0) =>
        /\ stats.min_duration <= stats.median_duration
        /\ stats.median_duration <= stats.max_duration
        /\ stats.min_duration \in AvgsOf(samples)
        /\ stats.max_duration \in AvgsOf(samples)
        /\ \A a \in AvgsOf(samples) :
              stats.min_duration <= a /\ a <= stats.max_duration

\* Samples recorded out of order with three different values.
C4_Witness ==
    /\ stats # NoStats
    /\ Len(samples) >= 3
    /\ ~RecordedInOrder(samples)
    /\ SampleAvg(samples[1]) = stats.max_duration
    /\ stats.min_duration < stats.median_duration
    /\ stats.median_duration < stats.max_duration

\* C5: with exactly one sample of size s > 0 and total duration d,
\* sample_count = 1, total_count = s, total_duration = d and the average,
\* minimum, maximum and median are all d / s (integer division).
C5_SingleSample ==
    (stats # NoStats /\ Len(samples) = 1) =>
        LET s == samples[1].size
            d == samples[1].total_duration
        IN /\ stats.sample_count = 1
           /\ stats.total_count = s
           /\ stats.total_duration = d
           /\ stats.avg_duration = d \div s
           /\ stats.min_duration = d \div s
           /\ stats.max_duration = d \div s
           /\ stats.median_duration = d \div s

\* One sample whose size does not divide its duration.
C5_Witness ==
    /\ stats # NoStats
    /\ Len(samples) = 1
    /\ samples[1].size = 3
    /\ samples[1].total_duration = 1000
    /\ stats.avg_duration = 333

\* C9: compute_stats leaves samples, options and mode as they were, and a
\* call that follows another with no sampling in between returns the same
\* Stats.
C9_ReadOnlyIdempotent ==
    [][ /\ samples' = samples
        /\ options' = options
        /\ is_test' = is_test
        /\ (stats # NoStats => stats' = stats) ]_vars

\* Stats were returned for samples that tie on their average, so that the
\* sort may arrange them in more than one way.
C9_Witness ==
    /\ stats # NoStats
    /\ Len(samples) >= 3
    /\ Cardinality(ordered_views(samples)) > 1
    /\ Cardinality(AvgsOf(samples)) > 1

====
